---- MODULE Spec2Model ----
(***************************************************************************)
(* ConfigLanguageTransformer.cpp: Lexer -> Parser (with the constant       *)
(* table) -> ASTNode::toJSON, as main() drives them.                        *)
(*                                                                         *)
(* A character is a one-character string; the zero byte is NUL.  A C++     *)
(* string is a sequence of characters.  A shared_ptr<ASTNode> is the index *)
(* of a node in `heap` (0 is the null pointer).  Token.line/column and the *)
(* Lexer's line/column only feed the text of error messages and are left   *)
(* out.                                                                     *)
(***************************************************************************)
EXTENDS Integers, Sequences, FiniteSets, TLC

VARIABLES
    input,          \* Lexer::input, as far as the environment has supplied it
    closed,         \* TRUE once the whole text has been supplied
    remaining,      \* number of lexemes the text may still grow by
    position,       \* Lexer::position
    calls,          \* number of nextToken calls made by the tokenizer driver
    declared,       \* history: the global declarations completed, in order
    currentToken,   \* Parser::currentToken
    constants,      \* Parser::constants
    heap,           \* the ASTNode objects
    writes,         \* history: per Mapping node, the addProperty calls made
    root,           \* parse()'s local `root`
    stack,          \* call stack of parse/parseValue/parseObject
    retval,         \* value returned by the call that just finished
    ast,            \* main()'s `ast` (0 until parse() has returned)
    output,         \* text written to the output file
    result          \* "new", "running", "parsed", "written" or the exception

vars == <<input, closed, remaining, position, calls, declared, currentToken, constants,
          heap, writes, root, stack, retval, ast, output, result>>

----------------------------------------------------------------------------
(* Characters                                                              *)

NUL == "NUL"
QUOTE == "\""
NL == "\n"
SP == " "

Digit == {"0", "1", "2", "3", "4", "5", "6", "7", "8", "9"}
LowerHex == {"a", "b", "c", "d", "e", "f"}
UpperHex == {"A", "B", "C", "D", "E", "F"}
Lower == LowerHex \cup {"g", "h", "i", "j", "k", "l", "m", "n", "o", "p", "q",
                        "r", "s", "t", "u", "v", "w", "x", "y", "z"}
Upper == UpperHex \cup {"G", "H", "I", "J", "K", "L", "M", "N", "O", "P", "Q",
                        "R", "S", "T", "U", "V", "W", "X", "Y", "Z"}

isspace(c) == c \in {SP, "\t", NL, "\r", "\f"}
isdigit(c) == c \in Digit
isalpha(c) == c \in Lower \cup Upper
isalnum(c) == isalpha(c) \/ isdigit(c)

isHexDigit(c) == isdigit(c) \/ c \in LowerHex \/ c \in UpperHex

----------------------------------------------------------------------------
(* Lexer                                                                   *)

Token(t, v) == [type |-> t, value |-> v]

peek(inp, pos) == IF pos < Len(inp) THEN inp[pos + 1] ELSE NUL

\* advance() moves on unless the character read is the zero byte.
advance(inp, pos) == IF peek(inp, pos) # NUL THEN pos + 1 ELSE pos

\* while (pos < input.length() && isspace(peek())) advance();
skipWhitespace(inp, pos) ==
    LET loop[q \in 0..Len(inp)] ==
            IF q < Len(inp) /\ isspace(peek(inp, q))
            THEN loop[advance(inp, q)]
            ELSE q
    IN  loop[pos]

\* while (pos < input.length() && isHexDigit(peek())) number += advance();
hexRun(inp, pos, number) ==
    LET loop[q \in 0..Len(inp), text \in Seq(STRING)] ==
            IF q < Len(inp) /\ isHexDigit(peek(inp, q))
            THEN loop[advance(inp, q), Append(text, peek(inp, q))]
            ELSE [text |-> text, position |-> q]
    IN  loop[pos, number]

\* while (pos < input.length() && (isalnum(peek()) || peek() == '_'))
\*     identifier += advance();
identRun(inp, pos, identifier) ==
    LET loop[q \in 0..Len(inp), text \in Seq(STRING)] ==
            IF q < Len(inp) /\ (isalnum(peek(inp, q)) \/ peek(inp, q) = "_")
            THEN loop[advance(inp, q), Append(text, peek(inp, q))]
            ELSE [text |-> text, position |-> q]
    IN  loop[pos, identifier]

\* while (pos < input.length() && peek() != '"' && peek() != '\0')
\*     str += advance();
stringRun(inp, pos, str) ==
    LET loop[q \in 0..Len(inp), text \in Seq(STRING)] ==
            IF q < Len(inp) /\ peek(inp, q) # QUOTE /\ peek(inp, q) # NUL
            THEN loop[advance(inp, q), Append(text, peek(inp, q))]
            ELSE [text |-> text, position |-> q]
    IN  loop[pos, str]

GLOBAL_WORD == <<"g", "l", "o", "b", "a", "l">>
TRUE_WORD == <<"t", "r", "u", "e">>
FALSE_WORD == <<"f", "a", "l", "s", "e">>

Punctuation ==
    [c \in {"{", "}", "[", "]", "(", ")", "#", "=", "?"} |->
        CASE c = "{" -> "LBRACE"
          [] c = "}" -> "RBRACE"
          [] c = "[" -> "LBRACKET"
          [] c = "]" -> "RBRACKET"
          [] c = "(" -> "LPAREN"
          [] c = ")" -> "RPAREN"
          [] c = "#" -> "HASH"
          [] c = "=" -> "EQUALS"
          [] c = "?" -> "QUESTION"]

\* Lexer::nextToken on the text inp read from pos: the token and the new
\* position.
nextToken(inp, pos0) ==
    LET pos == skipWhitespace(inp, pos0)
        current == peek(inp, pos)
    IN  IF pos >= Len(inp)
        THEN [tok |-> Token("EOF_TOKEN", <<>>), position |-> pos]
        ELSE IF current = "0" /\ pos + 1 < Len(inp)
                /\ inp[pos + 2] \in {"x", "X"}
        THEN LET r == hexRun(inp, advance(inp, advance(inp, pos)), <<>>)
             IN  [tok |-> Token("NUMBER", r.text), position |-> r.position]
        ELSE IF isalpha(current)
        THEN LET r == identRun(inp, pos, <<>>)
             IN  [tok |-> Token(IF r.text = GLOBAL_WORD THEN "GLOBAL"
                                ELSE IF r.text \in {TRUE_WORD, FALSE_WORD}
                                     THEN "STRING"
                                     ELSE "IDENTIFIER",
                                r.text),
                  position |-> r.position]
        ELSE IF current = QUOTE
        THEN LET r == stringRun(inp, advance(inp, pos), <<>>)
             IN  [tok |-> Token("STRING", r.text),
                  position |-> IF peek(inp, r.position) = QUOTE
                               THEN advance(inp, r.position)
                               ELSE r.position]
        ELSE IF current \in DOMAIN Punctuation
        THEN [tok |-> Token(Punctuation[current], <<current>>),
              position |-> advance(inp, pos)]
        ELSE [tok |-> Token("INVALID", <<current>>),
              position |-> advance(inp, pos)]

----------------------------------------------------------------------------
(* long long, std::stoll(text, nullptr, 16) and std::to_string             *)
(*                                                                         *)
(* A non-negative long long is four 16-bit limbs, most significant first   *)
(* (the token text carries no sign, so no negative value arises).          *)

LimbBase == 65536
SignLimb == 32768

ZeroLimbs == <<0, 0, 0, 0>>

hexValue(c) ==
    CASE c \in Digit -> (CHOOSE i \in 0..9 : <<"0", "1", "2", "3", "4", "5", "6", "7", "8", "9">>[i + 1] = c)
      [] c \in LowerHex -> 10 + (CHOOSE i \in 0..5 : <<"a", "b", "c", "d", "e", "f">>[i + 1] = c)
      [] c \in UpperHex -> 10 + (CHOOSE i \in 0..5 : <<"A", "B", "C", "D", "E", "F">>[i + 1] = c)

\* limbs * 16 + d, with the carry out of the top limb.
shiftInDigit(limbs, d) ==
    LET t0 == limbs[4] * 16 + d
        t1 == limbs[3] * 16 + (t0 \div LimbBase)
        t2 == limbs[2] * 16 + (t1 \div LimbBase)
        t3 == limbs[1] * 16 + (t2 \div LimbBase)
    IN  [limbs |-> <<t3 % LimbBase, t2 % LimbBase, t1 % LimbBase, t0 % LimbBase>>,
         carry |-> t3 \div LimbBase]

RECURSIVE accumulate(_, _, _, _)
accumulate(text, i, limbs, overflow) ==
    IF i > Len(text)
    THEN [limbs |-> limbs, overflow |-> overflow]
    ELSE LET r == shiftInDigit(limbs, hexValue(text[i]))
         IN  accumulate(text, i + 1, r.limbs, overflow \/ r.carry # 0)

\* The largest long long has a clear sign bit.
fitsLongLong(limbs) == limbs[1] < SignLimb

\* A conversion that accepts every value of 64 bits (stoull's range).
stoll_unsigned(text) ==
    IF text = <<>>
    THEN [thrown |-> "invalid_argument", value |-> ZeroLimbs]
    ELSE LET r == accumulate(text, 1, ZeroLimbs, FALSE)
         IN  IF r.overflow
             THEN [thrown |-> "out_of_range", value |-> ZeroLimbs]
             ELSE [thrown |-> "none", value |-> r.limbs]

\* stoll(text, nullptr, 16) on a run of hex digits: the value, or the
\* exception thrown (invalid_argument when no digit can be converted,
\* out_of_range when the value does not fit a long long).
stoll(text) ==
    IF text = <<>>
    THEN [thrown |-> "invalid_argument", value |-> ZeroLimbs]
    ELSE LET r == accumulate(text, 1, ZeroLimbs, FALSE)
         IN  IF r.overflow \/ ~fitsLongLong(r.limbs)
             THEN [thrown |-> "out_of_range", value |-> ZeroLimbs]
             ELSE [thrown |-> "none", value |-> r.limbs]

\* limbs \div 10 and limbs % 10.
divMod10(limbs) ==
    LET c1 == limbs[1]
        c2 == (c1 % 10) * LimbBase + limbs[2]
        c3 == (c2 % 10) * LimbBase + limbs[3]
        c4 == (c3 % 10) * LimbBase + limbs[4]
    IN  [quot |-> <<c1 \div 10, c2 \div 10, c3 \div 10, c4 \div 10>>,
         rem |-> c4 % 10]

DecimalDigit(d) == <<"0", "1", "2", "3", "4", "5", "6", "7", "8", "9">>[d + 1]

RECURSIVE decimalDigits(_)
decimalDigits(limbs) ==
    IF limbs = ZeroLimbs
    THEN <<>>
    ELSE LET r == divMod10(limbs)
         IN  Append(decimalDigits(r.quot), DecimalDigit(r.rem))

\* std::to_string(long long) of a non-negative value.
to_string(limbs) ==
    IF limbs = ZeroLimbs THEN <<"0">> ELSE decimalDigits(limbs)

----------------------------------------------------------------------------
(* AST nodes and toJSON                                                    *)

NoProperties == [k \in {} |-> 0]

Node(kind) ==
    [kind |-> kind, number |-> ZeroLimbs, text |-> <<>>, bool |-> FALSE,
     elements |-> <<>>, properties |-> NoProperties]

NumberNode(v) == [Node("Number") EXCEPT !.number = v]
StringNode(v) == [Node("String") EXCEPT !.text = v]
BoolNode(v) == [Node("Bool") EXCEPT !.bool = v]
ArrayNode == Node("Array")
ObjectNode == Node("Object")

\* make_shared<...>: the new node gets the next free index.
make_shared(h, node) == [heap |-> Append(h, node), ptr |-> Len(h) + 1]

\* ArrayNode::addElement
addElement(elements, element) == Append(elements, element)

\* std::map<string, shared_ptr<ASTNode>>::operator[] followed by assignment.
mapAssign(m, key, value) ==
    [k \in DOMAIN m \cup {key} |-> IF k = key THEN value ELSE m[k]]

\* A mapping that keeps the first value written under a key
\* (std::map::insert instead of operator[]).
mapInsert(m, key, value) ==
    IF key \in DOMAIN m THEN m ELSE mapAssign(m, key, value)

addProperty_insert(properties, key, value) == mapInsert(properties, key, value)

\* ObjectNode::addProperty
addProperty(properties, key, value) == mapAssign(properties, key, value)

\* The order of char values among the characters an identifier is made of.
AsciiOrder ==
    <<"0", "1", "2", "3", "4", "5", "6", "7", "8", "9",
      "A", "B", "C", "D", "E", "F", "G", "H", "I", "J", "K", "L", "M",
      "N", "O", "P", "Q", "R", "S", "T", "U", "V", "W", "X", "Y", "Z", "_",
      "a", "b", "c", "d", "e", "f", "g", "h", "i", "j", "k", "l", "m",
      "n", "o", "p", "q", "r", "s", "t", "u", "v", "w", "x", "y", "z">>

charCode(c) == CHOOSE i \in 1..Len(AsciiOrder) : AsciiOrder[i] = c

\* std::string operator<, the order std::map iterates its keys in.
RECURSIVE stringLess(_, _)
stringLess(a, b) ==
    IF b = <<>> THEN FALSE
    ELSE IF a = <<>> THEN TRUE
    ELSE IF Head(a) # Head(b) THEN charCode(Head(a)) < charCode(Head(b))
    ELSE stringLess(Tail(a), Tail(b))

RECURSIVE sortedKeys(_)
sortedKeys(keys) ==
    IF keys = {} THEN <<>>
    ELSE LET first == CHOOSE k \in keys :
                          \A other \in keys \ {k} : stringLess(k, other)
         IN  <<first>> \o sortedKeys(keys \ {first})

spaces(n) == [i \in 1..n |-> SP]

RECURSIVE toJSON(_, _, _)
RECURSIVE arrayElements(_, _, _)
RECURSIVE objectProperties(_, _, _, _, _)

\* ArrayNode::toJSON's loop: every element is serialized with the default
\* indent of 0.
arrayElements(h, elements, i) ==
    IF i > Len(elements) THEN <<>>
    ELSE (IF i > 1 THEN <<",", SP>> ELSE <<>>)
         \o toJSON(h, elements[i], 0)
         \o arrayElements(h, elements, i + 1)

\* ObjectNode::toJSON's loop over the properties in key order.
objectProperties(h, properties, keys, i, indent) ==
    IF i > Len(keys) THEN <<>>
    ELSE (IF i > 1 THEN <<",", NL>> ELSE <<>>)
         \o spaces(indent + 2) \o <<QUOTE>> \o keys[i] \o <<QUOTE, ":", SP>>
         \o toJSON(h, properties[keys[i]], indent + 2)
         \o objectProperties(h, properties, keys, i + 1, indent)

\* ASTNode::toJSON(indent) of node n, as a sequence of characters.
toJSON(h, n, indent) ==
    LET node == h[n]
    IN  CASE node.kind = "Number" -> to_string(node.number)
          [] node.kind = "String" -> <<QUOTE>> \o node.text \o <<QUOTE>>
          [] node.kind = "Bool" ->
                IF node.bool THEN TRUE_WORD ELSE FALSE_WORD
          [] node.kind = "Array" ->
                <<"[">> \o arrayElements(h, node.elements, 1) \o <<"]">>
          [] node.kind = "Object" ->
                IF DOMAIN node.properties = {}
                THEN <<"{", "}">>
                ELSE <<"{", NL>>
                     \o objectProperties(h, node.properties,
                                         sortedKeys(DOMAIN node.properties),
                                         1, indent)
                     \o <<NL>> \o spaces(indent) \o <<"}">>

----------------------------------------------------------------------------
(* The input text                                                          *)
(*                                                                         *)
(* The text is supplied to the Lexer one lexeme at a time, each followed   *)
(* by a space, when the Lexer has read all that was supplied before; the   *)
(* last piece closes the text.  A text is thus any sequence of at most     *)
(* MaxLexemes lexemes followed by one of the endings.  A lexeme is one     *)
(* token or the opening tokens of a declaration, an assignment, an array   *)
(* or a reference.                                                         *)

MaxLexemes == 7
MaxLexemesFair == 6

Lexemes ==
    { <<"g", "l", "o", "b", "a", "l", SP, "a", SP, "=">>,
      <<"a", SP, "=">>,
      <<"u", "n", "n", "a", "m", "e", "d", SP, "=">>,
      <<"=">>,
      <<"{">>, <<"}">>, <<"#", "(">>, <<")">>,
      <<"?", "[", "a", "]">>, <<"?">>,
      <<"0", "x", "1">>,
      <<QUOTE, "s", QUOTE>>,
      <<NUL>> }

\* The end of the text: nothing more, or a string that is never closed.
Endings == { <<>>, <<QUOTE, "s">> }

\* The Lexer's state and the Parser's lookahead while one handler runs;
\* err is the exception thrown, if any.
NoError == [kind |-> "none", expected |-> "", got |-> "", name |-> <<>>]

Exception(kind, expected, got, name) ==
    [kind |-> kind, expected |-> expected, got |-> got, name |-> name]

Cur ==
    [tok |-> currentToken, input |-> input, closed |-> closed,
     remaining |-> remaining, position |-> position, err |-> NoError]

\* The texts the Lexer may find itself reading when it next looks at its
\* input.
Supply(p) ==
    IF p.closed \/ skipWhitespace(p.input, p.position) < Len(p.input)
    THEN {p}
    ELSE { [p EXCEPT !.input = @ \o lexeme \o <<SP>>, !.remaining = @ - 1] :
             lexeme \in IF p.remaining > 0 THEN Lexemes ELSE {} }
         \cup
         { [p EXCEPT !.input = @ \o ending, !.closed = TRUE] :
             ending \in Endings }

\* currentToken = lexer.nextToken()
advanceToken(p) ==
    { LET r == nextToken(q.input, q.position)
      IN  [q EXCEPT !.tok = r.tok, !.position = r.position] : q \in Supply(p) }

\* Parser::eat
eat(expected, p) ==
    IF p.err # NoError THEN {p}
    ELSE IF p.tok.type = expected THEN advanceToken(p)
    ELSE { [p EXCEPT !.err =
                Exception("SyntaxError", expected, p.tok.type, <<>>)] }

----------------------------------------------------------------------------
(* Parser                                                                  *)

Status(kind) == Exception(kind, "", "", <<>>)

Frame(fn, pc, node, name) == [fn |-> fn, pc |-> pc, node |-> node, name |-> name]

Top == stack[Len(stack)]
Pop == SubSeq(stack, 1, Len(stack) - 1)
Call(frame, callee) == Append(Append(Pop, frame), callee)

Running == result.kind = "running" /\ stack # <<>>
At(fn, pc) == Running /\ Top.fn = fn /\ Top.pc = pc

UNNAMED == <<"u", "n", "n", "a", "m", "e", "d">>

\* Variables a handler sets from the state p it ends in: the lexer and the
\* lookahead always, the rest unless an exception was thrown.
Finish(p, stk, h, w, rv) ==
    /\ input' = p.input
    /\ closed' = p.closed
    /\ remaining' = p.remaining
    /\ position' = p.position
    /\ currentToken' = p.tok
    /\ IF p.err = NoError
       THEN /\ stack' = stk /\ heap' = h /\ writes' = w /\ retval' = rv
            /\ result' = result
       ELSE /\ result' = p.err
            /\ UNCHANGED <<stack, heap, writes, retval>>

Throw(exception) ==
    /\ result' = exception
    /\ UNCHANGED <<input, closed, remaining, position, currentToken, stack,
                   heap, writes, retval>>

\* node->addProperty(key, value) on the heap, with its history.
setProperty(h, node, key, value) ==
    [h EXCEPT ![node].properties = addProperty(@, key, value)]

logWrite(w, node, key, value) ==
    [w EXCEPT ![node] = Append(@, [key |-> key, value |-> value])]

\* Lexer lexer(inputText): nothing has been read of a text of at most n
\* lexemes.
Start(n) ==
    /\ input = <<>> /\ closed = FALSE /\ remaining = n
    /\ position = 0
    /\ calls = 0 /\ declared = <<>>
    /\ currentToken = Token("EOF_TOKEN", <<>>)
    /\ constants = NoProperties
    /\ heap = <<>> /\ writes = <<>>
    /\ root = 0 /\ stack = <<>> /\ retval = 0 /\ ast = 0
    /\ output = <<>>
    /\ result = Status("new")

Init == Start(MaxLexemes)

\* Parser parser(lexer): the constructor reads the first token.
Parser ==
    /\ result.kind = "new"
    /\ \E p \in advanceToken(Cur) :
          /\ input' = p.input /\ closed' = p.closed
          /\ remaining' = p.remaining /\ position' = p.position
          /\ currentToken' = p.tok
    /\ result' = Status("constructed")
    /\ UNCHANGED <<calls, declared, constants, heap, writes, root, stack, retval, ast,
                   output>>

\* parse(): auto root = make_shared<ObjectNode>()
parse_begin ==
    /\ result.kind = "constructed"
    /\ LET m == make_shared(heap, ObjectNode)
       IN  /\ heap' = m.heap
           /\ writes' = Append(writes, <<>>)
           /\ root' = m.ptr
    /\ stack' = <<Frame("parse", "loop", 0, <<>>)>>
    /\ result' = Status("running")
    /\ UNCHANGED <<input, closed, remaining, position, calls, declared, currentToken,
                   constants, retval, ast, output>>

\* while (currentToken.type != EOF_TOKEN) is left: return root
parse_return ==
    /\ At("parse", "loop")
    /\ currentToken.type = "EOF_TOKEN"
    /\ ast' = root
    /\ stack' = <<>>
    /\ result' = Status("parsed")
    /\ UNCHANGED <<input, closed, remaining, position, calls, declared, currentToken,
                   constants, heap, writes, root, retval, output>>

\* global NAME = ... up to the call of parseValue
parse_global ==
    /\ At("parse", "loop")
    /\ currentToken.type = "GLOBAL"
    /\ \E p1 \in eat("GLOBAL", Cur) :
       \E p2 \in eat("IDENTIFIER", p1) :
       \E p3 \in eat("EQUALS", p2) :
          Finish(p3, Call(Frame("parse", "global", 0, p1.tok.value),
                          Frame("parseValue", "entry", 0, <<>>)),
                 heap, writes, retval)
    /\ UNCHANGED <<calls, declared, constants, root, ast, output>>

bindConstant_insert(table, name, value) == mapInsert(table, name, value)

\* constants[name] = value
bindConstant(table, name, value) == mapAssign(table, name, value)

\* A declaration that also writes its value into the document root.
parse_global_bind_emit ==
    /\ At("parse", "global")
    /\ constants' = mapAssign(constants, Top.name, retval)
    /\ declared' = Append(declared, [name |-> Top.name, node |-> retval])
    /\ heap' = setProperty(heap, root, Top.name, retval)
    /\ writes' = logWrite(writes, root, Top.name, retval)
    /\ stack' = Append(Pop, Frame("parse", "loop", 0, <<>>))
    /\ UNCHANGED <<input, closed, remaining, position, calls, currentToken,
                   root, retval, ast, output, result>>

parse_global_bind ==
    /\ At("parse", "global")
    /\ constants' = bindConstant(constants, Top.name, retval)
    /\ declared' = Append(declared, [name |-> Top.name, node |-> retval])
    /\ stack' = Append(Pop, Frame("parse", "loop", 0, <<>>))
    /\ UNCHANGED <<input, closed, remaining, position, calls, currentToken,
                   heap, writes, root, retval, ast, output, result>>

\* IDENT = ... up to the call of parseValue
parse_assign ==
    /\ At("parse", "loop")
    /\ currentToken.type = "IDENTIFIER"
    /\ \E p1 \in eat("IDENTIFIER", Cur) :
       \E p2 \in eat("EQUALS", p1) :
          Finish(p2, Call(Frame("parse", "assign", 0, currentToken.value),
                          Frame("parseValue", "entry", 0, <<>>)),
                 heap, writes, retval)
    /\ UNCHANGED <<calls, declared, constants, root, ast, output>>

\* root->addProperty(key, value)
parse_assign_add ==
    /\ At("parse", "assign")
    /\ heap' = setProperty(heap, root, Top.name, retval)
    /\ writes' = logWrite(writes, root, Top.name, retval)
    /\ stack' = Append(Pop, Frame("parse", "loop", 0, <<>>))
    /\ UNCHANGED <<input, closed, remaining, position, calls, declared, currentToken,
                   constants, root, retval, ast, output, result>>

\* a bare block: auto obj = parseObject()
parse_bare ==
    /\ At("parse", "loop")
    /\ currentToken.type = "LBRACE"
    /\ stack' = Call(Frame("parse", "bare", 0, <<>>),
                     Frame("parseObject", "entry", 0, <<>>))
    /\ UNCHANGED <<input, closed, remaining, position, calls, declared, currentToken,
                   constants, heap, writes, root, retval, ast, output, result>>

\* root->addProperty("unnamed", obj)
parse_bare_add ==
    /\ At("parse", "bare")
    /\ heap' = setProperty(heap, root, UNNAMED, retval)
    /\ writes' = logWrite(writes, root, UNNAMED, retval)
    /\ stack' = Append(Pop, Frame("parse", "loop", 0, <<>>))
    /\ UNCHANGED <<input, closed, remaining, position, calls, declared, currentToken,
                   constants, root, retval, ast, output, result>>

\* A top-level loop that passes over a token it does not know without
\* consuming it.
parse_unexpected_ignore ==
    /\ At("parse", "loop")
    /\ currentToken.type \notin {"EOF_TOKEN", "GLOBAL", "IDENTIFIER", "LBRACE"}
    /\ UNCHANGED vars

\* any other token at the top level
parse_unexpected ==
    /\ At("parse", "loop")
    /\ currentToken.type \notin {"EOF_TOKEN", "GLOBAL", "IDENTIFIER", "LBRACE"}
    /\ Throw(Exception("UnexpectedToken", "", currentToken.type, <<>>))
    /\ UNCHANGED <<calls, declared, constants, root, ast, output>>

\* NUMBER: stoll, make_shared<NumberNode>, eat(NUMBER), return node
parseValue_number ==
    /\ At("parseValue", "entry")
    /\ currentToken.type = "NUMBER"
    /\ LET v == stoll(currentToken.value)
           m == make_shared(heap, NumberNode(v.value))
       IN  IF v.thrown # "none"
           THEN Throw(Exception(v.thrown, "", "", currentToken.value))
           ELSE \E p \in eat("NUMBER", Cur) :
                   Finish(p, Pop, m.heap, Append(writes, <<>>), m.ptr)
    /\ UNCHANGED <<calls, declared, constants, root, ast, output>>

\* STRING: a BoolNode for the texts true and false, a StringNode otherwise
parseValue_string ==
    /\ At("parseValue", "entry")
    /\ currentToken.type = "STRING"
    /\ LET m == make_shared(heap,
                    IF currentToken.value \in {TRUE_WORD, FALSE_WORD}
                    THEN BoolNode(currentToken.value = TRUE_WORD)
                    ELSE StringNode(currentToken.value))
       IN  \E p \in eat("STRING", Cur) :
              Finish(p, Pop, m.heap, Append(writes, <<>>), m.ptr)
    /\ UNCHANGED <<calls, declared, constants, root, ast, output>>

\* HASH: eat(HASH), eat(LPAREN), make_shared<ArrayNode>
parseValue_array ==
    /\ At("parseValue", "entry")
    /\ currentToken.type = "HASH"
    /\ LET m == make_shared(heap, ArrayNode)
       IN  \E p1 \in eat("HASH", Cur) :
           \E p2 \in eat("LPAREN", p1) :
              Finish(p2, Append(Pop, Frame("parseValue", "array", m.ptr, <<>>)),
                     m.heap, Append(writes, <<>>), retval)
    /\ UNCHANGED <<calls, declared, constants, root, ast, output>>

\* The array loop goes on until RPAREN or the end of the input.
arrayLoopContinues(type) == type # "RPAREN" /\ type # "EOF_TOKEN"

\* in the array loop: the call parseValue()
parseValue_array_element ==
    /\ At("parseValue", "array")
    /\ arrayLoopContinues(currentToken.type)
    /\ stack' = Call(Frame("parseValue", "array_add", Top.node, <<>>),
                     Frame("parseValue", "entry", 0, <<>>))
    /\ UNCHANGED <<input, closed, remaining, position, calls, declared, currentToken,
                   constants, heap, writes, root, retval, ast, output, result>>

\* array->addElement(...) with the value parseValue returned
parseValue_array_add ==
    /\ At("parseValue", "array_add")
    /\ heap' = [heap EXCEPT ![Top.node].elements = addElement(@, retval)]
    /\ stack' = Append(Pop, Frame("parseValue", "array", Top.node, <<>>))
    /\ UNCHANGED <<input, closed, remaining, position, calls, declared, currentToken,
                   constants, writes, root, retval, ast, output, result>>

\* An array that the end of the input closes as well.
parseValue_array_end_lenient ==
    /\ At("parseValue", "array")
    /\ ~arrayLoopContinues(currentToken.type)
    /\ \E p \in eat(currentToken.type, Cur) :
          Finish(p, Pop, heap, writes, Top.node)
    /\ UNCHANGED <<calls, declared, constants, root, ast, output>>

\* after the array loop: eat(RPAREN), return array
parseValue_array_end ==
    /\ At("parseValue", "array")
    /\ ~arrayLoopContinues(currentToken.type)
    /\ \E p \in eat("RPAREN", Cur) :
          Finish(p, Pop, heap, writes, Top.node)
    /\ UNCHANGED <<calls, declared, constants, root, ast, output>>

\* QUESTION: eat(QUESTION), eat(LBRACKET), the name, eat(IDENTIFIER),
\* eat(RBRACKET)
parseValue_constRef ==
    /\ At("parseValue", "entry")
    /\ currentToken.type = "QUESTION"
    /\ \E p1 \in eat("QUESTION", Cur) :
       \E p2 \in eat("LBRACKET", p1) :
       \E p3 \in eat("IDENTIFIER", p2) :
       \E p4 \in eat("RBRACKET", p3) :
          Finish(p4, Append(Pop, Frame("parseValue", "lookup", 0, p2.tok.value)),
                 heap, writes, retval)
    /\ UNCHANGED <<calls, declared, constants, root, ast, output>>

\* constants.find(constantName): the node to return, 0 when the name is
\* not in the table.
lookupConstant(table, name) ==
    IF name \in DOMAIN table THEN table[name] ELSE 0

\* A lookup without the find() check: operator[] hands back a null pointer
\* for a name that is not in the table.
parseValue_lookup_noThrow ==
    /\ At("parseValue", "lookup")
    /\ stack' = Pop
    /\ retval' = lookupConstant(constants, Top.name)
    /\ UNCHANGED <<input, closed, remaining, position, currentToken, heap,
                   writes, result>>
    /\ UNCHANGED <<calls, declared, constants, root, ast, output>>

\* A lookup that returns a copy of the constant's node.
parseValue_lookup_copy ==
    /\ At("parseValue", "lookup")
    /\ LET found == lookupConstant(constants, Top.name)
       IN  IF found = 0
           THEN Throw(Exception("UnknownConstant", "", "", Top.name))
           ELSE /\ stack' = Pop
                /\ heap' = Append(heap, heap[found])
                /\ writes' = Append(writes, writes[found])
                /\ retval' = Len(heap) + 1
                /\ UNCHANGED <<input, closed, remaining, position, currentToken,
                               result>>
    /\ UNCHANGED <<calls, declared, constants, root, ast, output>>

\* the lookup: throw, or return constants[constantName]
parseValue_lookup ==
    /\ At("parseValue", "lookup")
    /\ LET found == lookupConstant(constants, Top.name)
       IN  IF found = 0
           THEN Throw(Exception("UnknownConstant", "", "", Top.name))
           ELSE /\ stack' = Pop
                /\ retval' = found
                /\ UNCHANGED <<input, closed, remaining, position, currentToken,
                               heap, writes, result>>
    /\ UNCHANGED <<calls, declared, constants, root, ast, output>>

\* LBRACE: return parseObject() -- the call
parseValue_object ==
    /\ At("parseValue", "entry")
    /\ currentToken.type = "LBRACE"
    /\ stack' = Call(Frame("parseValue", "object", 0, <<>>),
                     Frame("parseObject", "entry", 0, <<>>))
    /\ UNCHANGED <<input, closed, remaining, position, calls, declared, currentToken,
                   constants, heap, writes, root, retval, ast, output, result>>

\* LBRACE: return parseObject() -- the return
parseValue_object_return ==
    /\ At("parseValue", "object")
    /\ stack' = Pop
    /\ UNCHANGED <<input, closed, remaining, position, calls, declared, currentToken,
                   constants, heap, writes, root, retval, ast, output, result>>

\* no alternative of value matches
parseValue_unexpected ==
    /\ At("parseValue", "entry")
    /\ currentToken.type \notin {"NUMBER", "STRING", "HASH", "QUESTION", "LBRACE"}
    /\ Throw(Exception("UnexpectedTokenInValue", "", currentToken.type, <<>>))
    /\ UNCHANGED <<calls, declared, constants, root, ast, output>>

\* parseObject: make_shared<ObjectNode>, eat(LBRACE)
parseObject_begin ==
    /\ At("parseObject", "entry")
    /\ LET m == make_shared(heap, ObjectNode)
       IN  \E p \in eat("LBRACE", Cur) :
              Finish(p, Append(Pop, Frame("parseObject", "loop", m.ptr, <<>>)),
                     m.heap, Append(writes, <<>>), retval)
    /\ UNCHANGED <<calls, declared, constants, root, ast, output>>

\* The object loop goes on until RBRACE or the end of the input.
objectLoopContinues(type) == type # "RBRACE" /\ type # "EOF_TOKEN"

\* in the object loop: IDENT = ... up to the call of parseValue
parseObject_pair ==
    /\ At("parseObject", "loop")
    /\ objectLoopContinues(currentToken.type)
    /\ currentToken.type = "IDENTIFIER"
    /\ \E p1 \in eat("IDENTIFIER", Cur) :
       \E p2 \in eat("EQUALS", p1) :
          Finish(p2, Call(Frame("parseObject", "add", Top.node, currentToken.value),
                          Frame("parseValue", "entry", 0, <<>>)),
                 heap, writes, retval)
    /\ UNCHANGED <<calls, declared, constants, root, ast, output>>

\* obj->addProperty(key, value)
parseObject_add ==
    /\ At("parseObject", "add")
    /\ heap' = setProperty(heap, Top.node, Top.name, retval)
    /\ writes' = logWrite(writes, Top.node, Top.name, retval)
    /\ stack' = Append(Pop, Frame("parseObject", "loop", Top.node, <<>>))
    /\ UNCHANGED <<input, closed, remaining, position, calls, declared, currentToken,
                   constants, root, retval, ast, output, result>>

\* in the object loop: anything but an identifier
parseObject_unexpected ==
    /\ At("parseObject", "loop")
    /\ objectLoopContinues(currentToken.type)
    /\ currentToken.type # "IDENTIFIER"
    /\ Throw(Exception("ExpectedIdentifier", "", currentToken.type, <<>>))
    /\ UNCHANGED <<calls, declared, constants, root, ast, output>>

\* after the object loop: eat(RBRACE), return obj
parseObject_end ==
    /\ At("parseObject", "loop")
    /\ ~objectLoopContinues(currentToken.type)
    /\ \E p \in eat("RBRACE", Cur) :
          Finish(p, Pop, heap, writes, Top.node)
    /\ UNCHANGED <<calls, declared, constants, root, ast, output>>

\* main(): outFile << ast->toJSON()
Serialize ==
    /\ result.kind = "parsed"
    /\ output' = toJSON(heap, ast, 0)
    /\ result' = Status("written")
    /\ UNCHANGED <<input, closed, remaining, position, calls, declared, currentToken,
                   constants, heap, writes, root, stack, retval, ast>>

Next ==
    \/ Parser \/ parse_begin \/ parse_return
    \/ parse_global \/ parse_global_bind
    \/ parse_assign \/ parse_assign_add
    \/ parse_bare \/ parse_bare_add
    \/ parse_unexpected
    \/ parseValue_number \/ parseValue_string
    \/ parseValue_array \/ parseValue_array_element
    \/ parseValue_array_add \/ parseValue_array_end
    \/ parseValue_constRef \/ parseValue_lookup
    \/ parseValue_object \/ parseValue_object_return
    \/ parseValue_unexpected
    \/ parseObject_begin \/ parseObject_pair \/ parseObject_add
    \/ parseObject_unexpected \/ parseObject_end
    \/ Serialize

Spec == Init /\ [][Next]_vars

\* main() is one thread that nothing blocks: it always takes its next step.
\* Termination is checked on the texts of at most MaxLexemesFair lexemes.
InitFair == Start(MaxLexemesFair)

FairSpec == InitFair /\ [][Next]_vars /\ WF_vars(Next)

----------------------------------------------------------------------------
(* The tokenizer alone: nextToken called until it returns EOF_TOKEN, on    *)
(* every text of at most MaxLexLen characters of LexAlphabet.              *)

MaxLexLen == 3
MaxCalls == 5

LexAlphabet == {NUL, SP, "0", "x", "a", QUOTE, "{", "$"}

RECURSIVE Texts(_, _)
Texts(alphabet, n) ==
    IF n = 0 THEN {<<>>}
    ELSE LET shorter == Texts(alphabet, n - 1)
         IN  shorter \cup { Append(t, c) : t \in shorter, c \in alphabet }

InitLex ==
    /\ input \in Texts(LexAlphabet, MaxLexLen)
    /\ closed = TRUE /\ remaining = 0 /\ position = 0
    /\ calls = 0 /\ declared = <<>>
    /\ currentToken = Token("EOF_TOKEN", <<>>)
    /\ constants = NoProperties
    /\ heap = <<>> /\ writes = <<>>
    /\ root = 0 /\ stack = <<>> /\ retval = 0 /\ ast = 0
    /\ output = <<>>
    /\ result = Status("lexing")

\* One more call of nextToken, as long as EOF_TOKEN has not been returned.
Tokenize ==
    /\ result.kind = "lexing"
    /\ calls < MaxCalls
    /\ calls > 0 => currentToken.type # "EOF_TOKEN"
    /\ LET r == nextToken(input, position)
       IN  /\ currentToken' = r.tok
           /\ position' = r.position
    /\ calls' = calls + 1
    /\ UNCHANGED <<input, closed, remaining, declared, constants, heap, writes,
                   root, stack, retval, ast, output, result>>

NextLex == Tokenize

SpecLex == InitLex /\ [][NextLex]_vars

----------------------------------------------------------------------------
(* Number literals: main() on the texts  a = 0x<digits>  for runs of hex   *)
(* digits around the ends of the long long range.                          *)

MaxLeadingZeros == 2
MaxFill == 16

RECURSIVE repeat(_, _)
repeat(c, n) == IF n = 0 THEN <<>> ELSE <<c>> \o repeat(c, n - 1)

DigitRuns ==
    { repeat("0", z) : z \in 0..(MaxLeadingZeros + 1) }
    \cup
    { repeat("0", z) \o <<first>> \o repeat(fill, n) :
        z \in 0..MaxLeadingZeros, first \in {"1", "7", "8", "f", "F"},
        fill \in {"0", "F"}, n \in 0..MaxFill }

NumberPrefix == <<"a", SP, "=", SP, "0", "x">>

InitNum ==
    /\ input \in { NumberPrefix \o digits : digits \in DigitRuns }
    /\ closed = TRUE /\ remaining = 0 /\ position = 0
    /\ calls = 0 /\ declared = <<>>
    /\ currentToken = Token("EOF_TOKEN", <<>>)
    /\ constants = NoProperties
    /\ heap = <<>> /\ writes = <<>>
    /\ root = 0 /\ stack = <<>> /\ retval = 0 /\ ast = 0
    /\ output = <<>>
    /\ result = Status("new")

NextNum ==
    \/ Parser \/ parse_begin \/ parse_assign \/ parseValue_number
    \/ parse_assign_add \/ parse_return \/ Serialize

SpecNum == InitNum /\ [][NextNum]_vars

----------------------------------------------------------------------------
(* Properties                                                              *)

Nodes == 1..Len(heap)

Range(f) == { f[x] : x \in DOMAIN f }

Children(h, n) == Range(h[n].elements) \cup Range(h[n].properties)

\* The nodes of `from` and every node reachable from them.
RECURSIVE Closure(_, _)
Closure(h, from) ==
    LET more == from \cup UNION { Children(h, n) : n \in from }
    IN  IF more = from THEN from ELSE Closure(h, more)

Failed == result.kind \notin {"new", "constructed", "running", "parsed",
                               "written", "lexing"}

Finished == result.kind = "written" \/ Failed

DeclaredNames == { declared[i].name : i \in DOMAIN declared }

\* The node of the last completed declaration of name.
LastDeclared(name) ==
    LET last == CHOOSE i \in DOMAIN declared :
                    /\ declared[i].name = name
                    /\ \A j \in DOMAIN declared :
                           declared[j].name = name => j <= i
    IN  declared[last].node

\* C1: a reference ?[NAME] is resolved against the table as it stands when
\* the reference is parsed.  When no declaration global NAME = value has been
\* completed before it, the parse fails with UnknownConstant for NAME and
\* there is neither a tree nor output text; otherwise the reference yields
\* the node NAME is bound to at that moment and the parse goes on.
C1_ConstRefResolution ==
    [][ At("parseValue", "lookup") =>
          IF Top.name \in DeclaredNames
          THEN /\ retval' = constants[Top.name]
               /\ stack' = Pop
               /\ result' = result
          ELSE /\ result'.kind = "UnknownConstant"
               /\ result'.name = Top.name
               /\ ast' = 0 /\ output' = <<>>
               /\ \A r \in {"parsed", "written"} : result'.kind # r ]_vars

\* A reference to NAME inside the value of NAME's own first declaration has
\* failed with UnknownConstant.
C1_Witness ==
    /\ result.kind = "UnknownConstant"
    /\ result.name \notin DeclaredNames
    /\ \E i \in DOMAIN stack :
          /\ stack[i].fn = "parse" /\ stack[i].pc = "global"
          /\ stack[i].name = result.name
    /\ ast = 0 /\ output = <<>>

\* The addProperty calls made on node n with this key, in order.
WritesTo(n, key) ==
    SelectSeq(writes[n], LAMBDA w : w.key = key)

\* C2: every Mapping, nested or the root, holds exactly one entry for each
\* key written to it, and the entry is the value of the last write to that
\* key; a bare block at the top level is a write to the root under
\* "unnamed".
C2_LastWriteWins ==
    \A n \in Nodes :
        heap[n].kind = "Object" =>
            /\ DOMAIN heap[n].properties =
                   { writes[n][i].key : i \in DOMAIN writes[n] }
            /\ \A key \in DOMAIN heap[n].properties :
                   LET ws == WritesTo(n, key)
                   IN  heap[n].properties[key] = ws[Len(ws)].value

\* The text starts with a bare block, and a later  unnamed = <number>  has
\* replaced the block in the root.
C2_Witness ==
    /\ root # 0
    /\ input # <<>> /\ input[1] = "{"
    /\ Len(WritesTo(root, UNNAMED)) >= 2
    /\ heap[WritesTo(root, UNNAMED)[1].value].kind = "Object"
    /\ heap[heap[root].properties[UNNAMED]].kind = "Number"
    /\ DOMAIN heap[root].properties = {UNNAMED}

\* A declaration global NAME = value is being parsed: from the GLOBAL token
\* to the assignment to the table.
InGlobalDeclaration ==
    /\ Running
    /\ \/ stack[1].pc = "global"
       \/ At("parse", "loop") /\ currentToken.type = "GLOBAL"

\* C3: a top-level declaration global NAME = value leaves the document root
\* as it is: no step of it changes the root Mapping or any node reachable
\* from the root, and its last step only binds NAME in the table.
C3_GlobalLeavesRoot ==
    [][ InGlobalDeclaration =>
          /\ root' = root
          /\ \A n \in Closure(heap, {root}) : heap'[n] = heap[n]
          /\ At("parse", "global") =>
                /\ heap' = heap
                /\ DOMAIN constants' = DOMAIN constants \cup {Top.name}
                /\ constants'[Top.name] = retval ]_vars

\* A declaration has been completed after the root got a property, and the
\* declared node is not part of the tree.
C3_Witness ==
    /\ At("parse", "loop")
    /\ declared # <<>>
    /\ DOMAIN heap[root].properties # {}
    /\ \E key \in DOMAIN heap[root].properties :
          heap[root].properties[key] < declared[Len(declared)].node
    /\ declared[Len(declared)].node \notin Closure(heap, {root})

\* The nodes that are or were in the table, and all nodes reachable from them.
Published ==
    Closure(heap, Range(constants) \cup { declared[i].node : i \in DOMAIN declared })

\* C4: once a node is in the table no step changes it or a node reachable
\* from it, and a reference ?[NAME] returns the node of the table entry
\* itself, making no copy.
C4_FreezeAfterPublish ==
    [][ /\ \A n \in Published : heap'[n] = heap[n]
        /\ (At("parseValue", "lookup") /\ Top.name \in DOMAIN constants) =>
              /\ retval' = constants[Top.name]
              /\ heap' = heap ]_vars

\* A declared array is held by the table and by the root, as one node, and an
\* element has been added to another array after it was published.
C4_Witness ==
    /\ Running
    /\ \E name \in DOMAIN constants :
          /\ heap[constants[name]].kind = "Array"
          /\ \E n \in Nodes :
                /\ n > constants[name]
                /\ heap[n].kind = "Array"
                /\ constants[name] \in Range(heap[n].elements)

\* C5 as stated: a name that has been bound stays bound to the same node,
\* whatever declarations follow.
C5_StaysBoundToSameNode ==
    \A i \in DOMAIN declared :
        /\ declared[i].name \in DOMAIN constants
        /\ constants[declared[i].name] = declared[i].node

\* C5, amended: the names in the table are the names of the declarations
\* completed so far, so no entry is ever removed and the table changes only
\* through top-level global declarations; each name is bound to the node of
\* its last declaration, a second declaration of a name replacing the first.
C5_LastDeclarationBinds ==
    /\ DOMAIN constants = DeclaredNames
    /\ \A name \in DOMAIN constants : constants[name] = LastDeclared(name)

\* A name has been declared twice, with different nodes.
C5_Witness ==
    \E i, j \in DOMAIN declared :
        /\ i < j
        /\ declared[i].name = declared[j].name
        /\ declared[i].node # declared[j].node
        /\ constants[declared[j].name] = declared[j].node

\* The parser is inside an array or an object: between the opening token and
\* the closing one.
InsideConstruct ==
    \E i \in DOMAIN stack :
        \/ stack[i].fn = "parseValue" /\ stack[i].pc \in {"array", "array_add"}
        \/ stack[i].fn = "parseObject" /\ stack[i].pc \in {"loop", "add"}

\* The text ends inside a string: there is no escape, so the quotes of a
\* text that has been read to its end pair up unless the last string is open.
UnterminatedString ==
    /\ closed /\ position = Len(input)
    /\ Cardinality({ i \in DOMAIN input : input[i] = QUOTE }) % 2 = 1

\* One of the parser's exceptions for a token it cannot use, raised for
\* EOF_TOKEN.
SyntaxErrorAgainstEnd ==
    /\ result.kind \in {"SyntaxError", "UnexpectedToken",
                        "UnexpectedTokenInValue", "ExpectedIdentifier"}
    /\ result.got = "EOF_TOKEN"

\* C6 as stated: when the end of the input is reached inside an array, an
\* object or a string, the translation fails with a syntax error against
\* the end of the input and produces no tree.  (An exception for a token
\* ahead of the end, the reference to a name that is not declared, comes
\* first and is not the case the claim is about.)
C6_UnterminatedFails ==
    (/\ Finished
     /\ currentToken.type = "EOF_TOKEN"
     /\ result.kind # "UnknownConstant"
     /\ InsideConstruct \/ UnterminatedString)
    => SyntaxErrorAgainstEnd /\ ast = 0

\* C6, amended: when the end of the input is reached inside an array or an
\* object, no step returns from the array or object: the next step that
\* changes the outcome fails, with a syntax error against the end of the
\* input, or with UnknownConstant when the last value is a reference to a
\* name that is not declared, and there is no tree.
C6_UnterminatedConstructFails ==
    [][ (Running /\ currentToken.type = "EOF_TOKEN" /\ InsideConstruct) =>
          \/ /\ Failed' /\ ast' = 0
             /\ \/ SyntaxErrorAgainstEnd'
                \/ At("parseValue", "lookup") /\ result'.kind = "UnknownConstant"
          \/ /\ result' = result /\ currentToken' = currentToken
             /\ InsideConstruct' ]_vars

\* The input ended inside an array that holds an element, and eat(RPAREN)
\* failed against EOF_TOKEN.
C6_Witness ==
    /\ result.kind = "SyntaxError"
    /\ result.expected = "RPAREN" /\ result.got = "EOF_TOKEN"
    /\ stack # <<>> /\ Top.fn = "parseValue" /\ Top.pc = "array"
    /\ heap[Top.node].elements # <<>>
    /\ closed /\ ast = 0

----------------------------------------------------------------------------
(* Number literals                                                         *)

\* The digits of the literal in a text of InitNum.
LiteralDigits == SubSeq(input, Len(NumberPrefix) + 1, Len(input))

DigitValues(text) == [i \in 1..Len(text) |-> hexValue(text[i])]

RECURSIVE StripZeros(_)
StripZeros(values) ==
    IF values # <<>> /\ Head(values) = 0 THEN StripZeros(Tail(values))
    ELSE values

\* The sixteen base-16 digits of a value of four limbs.
Nibbles(limbs) ==
    [i \in 1..16 |->
        LET limb == limbs[((i - 1) \div 4) + 1]
            k == (i - 1) % 4
        IN  CASE k = 0 -> limb \div 4096
              [] k = 1 -> (limb \div 256) % 16
              [] k = 2 -> (limb \div 16) % 16
              [] k = 3 -> limb % 16]

\* The digits denote a value above 2^63 - 1.
ExceedsLongLong(text) ==
    LET v == StripZeros(DigitValues(text))
    IN  Len(v) > 16 \/ (Len(v) = 16 /\ v[1] >= 8)

\* parseValue has dealt with the NUMBER token.
NumberHandled == Failed \/ retval # 0

IsNumberOf(n, text) ==
    /\ n # 0
    /\ heap[n].kind = "Number"
    /\ StripZeros(Nibbles(heap[n].number)) = StripZeros(DigitValues(text))

\* C7 as stated: for every NUMBER token the value rule either yields a
\* Number node of the base-16 value of the digits, or fails with the
\* overflow error when the value exceeds the signed 64-bit range.
C7_TwoOutcomes ==
    NumberHandled =>
        \/ ~Failed /\ ~ExceedsLongLong(LiteralDigits)
                   /\ IsNumberOf(retval, LiteralDigits)
        \/ result.kind = "out_of_range" /\ ExceedsLongLong(LiteralDigits)

\* C7, amended: for a NUMBER token with at least one digit the value rule
\* yields a Number node of the base-16 value of the digits when the value
\* is at most 2^63 - 1 and fails with the overflow error (out_of_range)
\* otherwise; for the token with no digit, the text 0x, it fails with
\* invalid_argument.  No node is made when it fails.
C7_ThreeOutcomes ==
    NumberHandled =>
        IF LiteralDigits = <<>>
        THEN result.kind = "invalid_argument" /\ retval = 0 /\ ast = 0
        ELSE IF ExceedsLongLong(LiteralDigits)
        THEN result.kind = "out_of_range" /\ retval = 0 /\ ast = 0
        ELSE ~Failed /\ IsNumberOf(retval, LiteralDigits)

\* The largest long long, written with more than sixteen digits, has been
\* decoded.
C7_Witness ==
    /\ result.kind = "written"
    /\ Len(LiteralDigits) > 16
    /\ heap[retval].number = <<32767, 65535, 65535, 65535>>
    /\ output = <<"{", NL, SP, SP, QUOTE, "a", QUOTE, ":", SP,
                  "9", "2", "2", "3", "3", "7", "2", "0", "3", "6", "8", "5",
                  "4", "7", "7", "5", "8", "0", "7", NL, "}">>

----------------------------------------------------------------------------
(* The tokenizer                                                           *)

\* The tokens other than EOF_TOKEN returned so far.
NonEndTokens ==
    IF calls > 0 /\ currentToken.type = "EOF_TOKEN" THEN calls - 1 ELSE calls

\* C8: every call of nextToken that does not return EOF_TOKEN moves the
\* position on by at least one character, so that the tokens other than
\* EOF_TOKEN are at most as many as the characters of the text.
C8_EveryTokenAdvances ==
    /\ NonEndTokens <= position
    /\ position <= Len(input)

----------------------------------------------------------------------------
(* Serialization                                                           *)

\* C9: the text of an array, from [ to ], holds no newline, whatever the
\* elements are.
C9_ArraysSingleLine ==
    result.kind = "written" =>
        \A n \in Closure(heap, {ast}) :
            heap[n].kind = "Array" => NL \notin Range(toJSON(heap, n, 0))

----------------------------------------------------------------------------
(* Termination                                                             *)

\* No node is reachable from itself.
Acyclic == \A n \in Nodes : n \notin Closure(heap, Children(heap, n))

\* C10: the translation ends, with the text written or with an exception,
\* and the nodes never form a cycle, so that toJSON ends too.
C10_Terminates == []Acyclic /\ <>Finished

\* The translation has ended with the text written, for a text that declares
\* a name again with an array that holds the name's previous node.
C10_Witness ==
    /\ result.kind = "written"
    /\ \E i, j \in DOMAIN declared :
          /\ i < j
          /\ declared[i].name = declared[j].name
          /\ heap[declared[j].node].kind = "Array"
          /\ declared[i].node \in Range(heap[declared[j].node].elements)

====
